---- MODULE Spec2Model ----
(***************************************************************************)
(* A model of CacheManager (aofl-js-packages/cache-manager/modules/        *)
(* cache-manager.js): a namespaced, expiring key/value cache over          *)
(* localStorage, sessionStorage or MemoryStorage.                          *)
(*                                                                         *)
(* Every handler of the class is one atomic action (JavaScript runs each   *)
(* call to completion); it is computed by a pure operator that takes the   *)
(* instance `c` and the contents `S` of its backend and returns the new    *)
(* instance, the new contents, the returned value and whether it threw.    *)
(***************************************************************************)
EXTENDS Integers, Sequences, FiniteSets, TLC

(***************************************************************************)
(* Strings.  A string is a sequence of symbols.  A symbol is a character   *)
(* [ch |-> "a", of |-> <<>>] or the digest of a string                     *)
(* [ch |-> "#", of |-> s]: md5 is modelled as a free constructor, that is  *)
(* as a deterministic and injective function of the hashed string whose    *)
(* output is none of the characters.                                       *)
(***************************************************************************)
Str(t) == [i \in 1..Len(t) |-> [ch |-> t[i], of |-> <<>>]]

md5(s) == <<[ch |-> "#", of |-> s]>>

\* key.indexOf(prefix) === 0
StartsWith(s, p) == Len(s) >= Len(p) /\ SubSeq(s, 1, Len(p)) = p

Range(f) == {f[i] : i \in DOMAIN f}

\* All orderings of a finite set (the order in which `for ... in` visits keys).
Perms(K) == {p \in [1..Cardinality(K) -> K] : Range(p) = K}

(***************************************************************************)
(* JavaScript values.  One record shape for all of them:                   *)
(*   ty  the kind of value, n its number, v the wrapped value of an        *)
(*   envelope (a sequence of length 1), s the text of a string (tokens).   *)
(***************************************************************************)
JSNull == [ty |-> "null", n |-> 0, v |-> <<>>, s |-> <<>>]
JSUndefined == [ty |-> "undefined", n |-> 0, v |-> <<>>, s |-> <<>>]
JSNumber(n) == [ty |-> "number", n |-> n, v |-> <<>>, s |-> <<>>]
\* the number NaN
JSNaN == [ty |-> "NaN", n |-> 0, v |-> <<>>, s |-> <<>>]
\* the object {age: n}
JSObject(n) == [ty |-> "object", n |-> n, v |-> <<>>, s |-> <<>>]
JSString(s) == [ty |-> "string", n |-> 0, v |-> <<>>, s |-> s]
\* the object {t: t, v: v} built by setItem
Envelope(t, v) == [ty |-> "envelope", n |-> t, v |-> <<v>>, s |-> <<>>]

\* Object.hasOwnProperty.call(obj, 't')
hasOwnT(obj) == obj.ty = "envelope"

(***************************************************************************)
(* JSON.  Text is a sequence of tokens; numbers are printed and read back  *)
(* in decimal.                                                             *)
(***************************************************************************)
MaxNum == 4
NumRange == (0 - MaxNum)..MaxNum
Numerals == {ToString(n) : n \in NumRange}
NumberOf(tok) == CHOOSE n \in NumRange : ToString(n) = tok

stringifyValue(v) ==
  CASE v.ty = "number" -> <<ToString(v.n)>>
    [] v.ty = "object" -> <<"{", "\"age\"", ":", ToString(v.n), "}">>
    [] OTHER -> <<"null">>

\* JSON.stringify({t: ..., v: ...}): a property whose value is undefined is
\* omitted.
JSON_stringify(obj) ==
  <<"{", "\"t\"", ":", ToString(obj.n)>>
    \o (IF obj.v[1].ty = "undefined" THEN <<>>
        ELSE <<",", "\"v\"", ":">> \o stringifyValue(obj.v[1]))
    \o <<"}">>

parseValue(s) ==
  IF s = <<"null">> THEN [threw |-> FALSE, val |-> JSNull]
  ELSE IF Len(s) = 1 /\ s[1] \in Numerals
    THEN [threw |-> FALSE, val |-> JSNumber(NumberOf(s[1]))]
  ELSE IF Len(s) = 5 /\ SubSeq(s, 1, 3) = <<"{", "\"age\"", ":">>
          /\ s[4] \in Numerals /\ s[5] = "}"
    THEN [threw |-> FALSE, val |-> JSObject(NumberOf(s[4]))]
  ELSE [threw |-> TRUE, val |-> JSUndefined]

\* JSON.parse(x): null is first converted to the text "null"; text that is
\* not JSON raises SyntaxError.
JSON_parse(x) ==
  LET s == IF x.ty = "null" THEN <<"null">> ELSE x.s
  IN IF ~parseValue(s).threw THEN parseValue(s)
     ELSE IF Len(s) >= 5 /\ SubSeq(s, 1, 3) = <<"{", "\"t\"", ":">>
             /\ s[4] \in Numerals /\ s[Len(s)] = "}"
       THEN IF Len(s) = 5
              THEN [threw |-> FALSE,
                    val |-> Envelope(NumberOf(s[4]), JSUndefined)]
            ELSE IF Len(s) > 8 /\ SubSeq(s, 5, 7) = <<",", "\"v\"", ":">>
                    /\ ~parseValue(SubSeq(s, 8, Len(s) - 1)).threw
              THEN [threw |-> FALSE,
                    val |-> Envelope(NumberOf(s[4]),
                                     parseValue(SubSeq(s, 8, Len(s) - 1)).val)]
            ELSE [threw |-> TRUE, val |-> JSUndefined]
     ELSE [threw |-> TRUE, val |-> JSUndefined]

(***************************************************************************)
(* The backends.  The contents S of a backend is a function from the keys  *)
(* present to the stored values.                                           *)
(***************************************************************************)
Supported == {"local", "session", "memory"}

\* STORAGE[storageType] is undefined for any other selector
STORAGE(storageType) == storageType \in Supported

Empty == [j \in {} |-> JSNull]

\* localStorage and sessionStorage: getItem of an absent key is null; the
\* keys present are the own enumerable properties.
Storage_getItem(S, k) == IF k \in DOMAIN S THEN S[k] ELSE JSNull

Storage_setItem(S, k, x) ==
  [j \in DOMAIN S \cup {k} |-> IF j = k THEN x ELSE S[j]]

Storage_removeItem(S, k) == [j \in DOMAIN S \ {k} |-> S[j]]

Storage_keys(S) == DOMAIN S

\* MemoryStorage: an in-process map with the same surface, holding the
\* values handed to it as they are.
MemoryStorage_getItem(S, k) == IF k \in DOMAIN S THEN S[k] ELSE JSNull

MemoryStorage_setItem(S, k, x) ==
  [j \in DOMAIN S \cup {k} |-> IF j = k THEN x ELSE S[j]]

MemoryStorage_removeItem(S, k) == [j \in DOMAIN S \ {k} |-> S[j]]

MemoryStorage_keys(S) == DOMAIN S

\* this.storage.getItem(k), .setItem(k, x), .removeItem(k) and the keys
\* `for ... in this.storage` visits, this.storage being STORAGE[kind].
storage_getItem(kind, S, k) ==
  IF kind = "memory" THEN MemoryStorage_getItem(S, k) ELSE Storage_getItem(S, k)

storage_setItem(kind, S, k, x) ==
  IF kind = "memory" THEN MemoryStorage_setItem(S, k, x)
  ELSE Storage_setItem(S, k, x)

storage_removeItem(kind, S, k) ==
  IF kind = "memory" THEN MemoryStorage_removeItem(S, k)
  ELSE Storage_removeItem(S, k)

storage_keys(kind, S) ==
  IF kind = "memory" THEN MemoryStorage_keys(S) ELSE Storage_keys(S)

(***************************************************************************)
(* The instance.  c.interval is 0 when undefined, -1 when null, else the   *)
(* handle returned by setInterval.                                         *)
(***************************************************************************)
MAX_SIGNED_INT == 2147483647

IsText(c) == c.storageType = "local" \/ c.storageType = "session"

\* The result of a handler.
R(c, S, ret, threw) == [c |-> c, S |-> S, ret |-> ret, threw |-> threw]

\* storedKeys.indexOf(key); 0 when absent (positions count from 1)
indexOf(keys, key) ==
  IF key \in Range(keys)
    THEN CHOOSE i \in 1..Len(keys) :
           keys[i] = key /\ \A j \in 1..(i - 1) : keys[j] # key
  ELSE 0

\* storedKeys.splice(index, 1)
splice(keys, i) == SubSeq(keys, 1, i - 1) \o SubSeq(keys, i + 1, Len(keys))

\* The keys getStoredKeys collects: those of the backend beginning with
\* namespace + '_'.  (for-in over undefined visits nothing.)
OwnKeys(c, S) ==
  IF STORAGE(c.storageType)
    THEN {k \in storage_keys(c.storageType, S) :
            StartsWith(k, c.namespace \o Str(<<"_">>))}
  ELSE {}

\* getStoredKeys returns them in the backend's enumeration order, which is
\* any order.
getStoredKeys(c, S) == Perms(OwnKeys(c, S))

\* (a derivation that hashes tracked keys too)
getNamespaceKeyAlwaysHash(c, key) == c.namespace \o Str(<<"_">>) \o md5(key)

getNamespaceKey(c, key) ==
  IF indexOf(c.storedKeys, key) > 0 THEN key
  ELSE c.namespace \o Str(<<"_">>) \o md5(key)

\* (a setItem that hands the envelope to every backend unserialized)
setItemUnserialized(c, S, key, value, t) ==
  LET obj == Envelope(t, value)
      namespaceKey == getNamespaceKey(c, key)
  IN IF ~STORAGE(c.storageType) THEN R(c, S, JSUndefined, TRUE)
     ELSE R([c EXCEPT !.storedKeys = Append(@, namespaceKey)],
            storage_setItem(c.storageType, S, namespaceKey, obj), JSUndefined, FALSE)

setItem(c, S, key, value, t) ==
  LET env == Envelope(t, value)
      obj == IF IsText(c) THEN JSString(JSON_stringify(env)) ELSE env
      namespaceKey == getNamespaceKey(c, key)
  IN IF ~STORAGE(c.storageType) THEN R(c, S, JSUndefined, TRUE)
     ELSE R([c EXCEPT !.storedKeys = Append(@, namespaceKey)],
            storage_setItem(c.storageType, S, namespaceKey, obj), JSUndefined, FALSE)

removeItem(c, S, key) ==
  LET namespaceKey == getNamespaceKey(c, key)
      index == indexOf(c.storedKeys, namespaceKey)
  IN IF index > 0
       THEN IF ~STORAGE(c.storageType) THEN R(c, S, JSUndefined, TRUE)
            ELSE R([c EXCEPT !.storedKeys = splice(@, index)],
                   storage_removeItem(c.storageType, S, namespaceKey), JSUndefined, FALSE)
     ELSE R(c, S, JSUndefined, FALSE)

ExpireEnabled(c) == c.expire.ty = "number" /\ c.expire.n > 0

\* isExpired(key) with Date.now() = t.  val is the boolean returned.
isExpired(c, S, key, t) ==
  IF ~ExpireEnabled(c) THEN [threw |-> FALSE, val |-> FALSE]
  ELSE IF ~STORAGE(c.storageType) THEN [threw |-> TRUE, val |-> FALSE]
  ELSE LET raw == storage_getItem(c.storageType, S, getNamespaceKey(c, key))
           obj == IF IsText(c) /\ ~JSON_parse(raw).threw
                    THEN JSON_parse(raw).val ELSE raw
       IN [threw |-> FALSE,
           val |-> obj.ty = "null" \/ (hasOwnT(obj) /\ obj.n < t - c.expire.n)]

getItem(c, S, key, t) ==
  IF ~STORAGE(c.storageType) THEN R(c, S, JSUndefined, TRUE)
  ELSE LET raw == storage_getItem(c.storageType, S, getNamespaceKey(c, key))
           parsed == JSON_parse(raw)
           obj == IF IsText(c) THEN parsed.val ELSE raw
       IN IF IsText(c) /\ parsed.threw THEN R(c, S, JSUndefined, TRUE)
          ELSE IF obj.ty # "null" /\ hasOwnT(obj)
            THEN IF isExpired(c, S, key, t).val
                   THEN LET rm == removeItem(c, S, key)
                        IN R(rm.c, rm.S, JSNull, rm.threw)
                 ELSE R(c, S, obj.v[1], FALSE)
          ELSE R(c, S, obj, FALSE)

\* The loop of clear() from position i on (positions count from 1).
RECURSIVE clearFrom(_, _, _)
clearFrom(c, S, i) ==
  IF i > Len(c.storedKeys) THEN S
  ELSE clearFrom(c, storage_removeItem(c.storageType, S, c.storedKeys[i]), i + 1)

clear(c, S) ==
  IF Len(c.storedKeys) > 0 /\ ~STORAGE(c.storageType)
    THEN R(c, S, JSUndefined, TRUE)
  ELSE R([c EXCEPT !.storedKeys = <<>>], clearFrom(c, S, 1), JSUndefined, FALSE)

\* removeExpired from position i on (positions count from 1): the loop
\* re-reads storedKeys.length at every turn and always advances i.
RECURSIVE removeExpiredFrom(_, _, _, _)
removeExpiredFrom(c, S, i, t) ==
  IF i > Len(c.storedKeys) THEN R(c, S, JSUndefined, FALSE)
  ELSE LET e == isExpired(c, S, c.storedKeys[i], t)
           rm == removeItem(c, S, c.storedKeys[i])
       IN IF e.threw THEN R(c, S, JSUndefined, TRUE)
          ELSE IF e.val
            THEN IF rm.threw THEN rm
                 ELSE removeExpiredFrom(rm.c, rm.S, i + 1, t)
          ELSE removeExpiredFrom(c, S, i + 1, t)

\* (a pass that looks at the first tracked key only)
removeExpiredHead(c, S, t) ==
  IF Len(c.storedKeys) > 0 /\ isExpired(c, S, c.storedKeys[1], t).val
    THEN removeItem(c, S, c.storedKeys[1])
  ELSE R(c, S, JSUndefined, FALSE)

removeExpired(c, S, t) == removeExpiredFrom(c, S, 1, t)

\* removeExpired over a backend whose calls for the keys in `bad` raise: the
\* exception leaves isExpired (its try covers JSON.parse only) and the loop.
RECURSIVE removeExpiredFailingFrom(_, _, _, _, _)
removeExpiredFailingFrom(c, S, i, t, bad) ==
  IF i > Len(c.storedKeys) THEN R(c, S, JSUndefined, FALSE)
  ELSE IF c.storedKeys[i] \in bad THEN R(c, S, JSUndefined, TRUE)
  ELSE LET e == isExpired(c, S, c.storedKeys[i], t)
           rm == removeItem(c, S, c.storedKeys[i])
       IN IF e.threw THEN R(c, S, JSUndefined, TRUE)
          ELSE IF e.val
            THEN IF rm.threw THEN rm
                 ELSE removeExpiredFailingFrom(rm.c, rm.S, i + 1, t, bad)
          ELSE removeExpiredFailingFrom(c, S, i + 1, t, bad)

removeExpiredFailing(c, S, t, bad) == removeExpiredFailingFrom(c, S, 1, t, bad)

\* Date.now() at the r-th reading of the clock by one handler: the clock
\* stands at clk.t and moves on by clk.d before reading number clk.at.
Now(clk, r) == IF r < clk.at THEN clk.t ELSE clk.t + clk.d

Clocks(t, reads, maxd) ==
  {[t |-> t, at |-> 1, d |-> 0]}
    \cup {[t |-> t, at |-> a, d |-> d] : a \in 1..reads, d \in 1..maxd}

\* The loop of getCollection from position i on, coll being the mapping
\* built so far and r the number of clock readings made so far.
RECURSIVE getCollectionFrom(_, _, _, _, _, _)
getCollectionFrom(c, S, coll, i, r, clk) ==
  IF i > Len(c.storedKeys) THEN R(c, S, coll, FALSE)
  ELSE LET key == c.storedKeys[i]
           g == getItem(c, S, key, Now(clk, r + 1))
       IN IF isExpired(c, S, key, Now(clk, r)).val
            THEN getCollectionFrom(c, S, coll, i + 1, r + 1, clk)
          ELSE IF g.threw THEN R(g.c, g.S, coll, TRUE)
          ELSE getCollectionFrom(g.c, g.S,
                 [j \in DOMAIN coll \cup {key} |->
                    IF j = key THEN g.ret ELSE coll[j]],
                 i + 1, r + 2, clk)

\* getCollection(), `keys` being what getStoredKeys returns.  ret is the
\* mapping returned.
getCollection(c, S, keys, clk) ==
  getCollectionFrom([c EXCEPT !.storedKeys = keys], S, Empty, 1, 0, clk)

\* get size(): ret is the number returned
size(c, S, keys, clk) ==
  LET g == getCollection(c, S, keys, clk)
  IN R(g.c, g.S, Cardinality(DOMAIN g.ret), g.threw)

(***************************************************************************)
(* Timers.  T is the set of live intervals [id, owner, delay].  Handles    *)
(* are never reused while anything still refers to them.                   *)
(***************************************************************************)
clearInterval(T, id) == {tm \in T : tm.id # id}

\* value > 0 && value < MAX_SIGNED_INT, with JavaScript's conversion of the
\* operand to a number (a numeric string converts, null is 0, the rest NaN)
InTimerRange(value) ==
  LET isNum == \/ value.ty = "number"
               \/ value.ty = "string" /\ Len(value.s) = 1
                    /\ value.s[1] \in Numerals
      num == IF value.ty = "number" THEN value.n ELSE NumberOf(value.s[1])
  IN isNum /\ num > 0 /\ num < MAX_SIGNED_INT

\* set expire(value) of instance `owner`; h is the handle setInterval
\* returns.  Yields the instance and the live intervals.
set_expire(c, T, value, owner, h) ==
  LET T1 == IF c.interval # -1 THEN clearInterval(T, c.interval) ELSE T
  IN IF InTimerRange(value)
       THEN [c |-> [c EXCEPT !.expire = value, !.interval = h],
             T |-> T1 \cup {[id |-> h, owner |-> owner, delay |-> value]}]
     ELSE [c |-> [c EXCEPT !.expire = value], T |-> T1]

\* (a destruct that releases the references and cancels nothing)
destructNoCancel(c, T, owner, h) ==
  [c |-> [c EXCEPT !.namespace = <<>>, !.storageType = "null",
                   !.expire = JSNull, !.state = "disposed",
                   !.storedKeys = <<>>, !.interval = -1],
   T |-> T]

destruct(c, T, owner, h) ==
  LET T1 == clearInterval(T, c.interval)
      e == set_expire([c EXCEPT !.namespace = <<>>, !.storageType = "null"],
                      T1, JSNull, owner, h)
  IN [c |-> [e.c EXCEPT !.state = "disposed", !.storedKeys = <<>>,
                        !.interval = -1],
      T |-> e.T]

\* new CacheManager(namespace, storageType, expire)
constructor(namespace, storageType, expire, keys, T, owner, h) ==
  set_expire([state |-> "active", namespace |-> namespace,
              storageType |-> storageType, storedKeys |-> keys,
              expire |-> JSUndefined, interval |-> 0],
             T, expire, owner, h)

(***************************************************************************)
(* The state.                                                              *)
(*   now      the clock, Date.now()                                        *)
(*   storage  the contents of each backend                                 *)
(*   inst     the CacheManager instances                                   *)
(*   timers   the live intervals                                           *)
(*   wrote    history: for each instance and storage key, the last         *)
(*            setItem of the instance that wrote there under its current   *)
(*            ttl: the logical key k, the value v, the time t, and how it  *)
(*            stands: "written", "removed" (by removeItem of the caller)   *)
(*            or "cleared" (by clear)                                      *)
(***************************************************************************)
VARIABLES now, storage, inst, timers, wrote

vars == <<now, storage, inst, timers, wrote>>

MaxTime == 2
MaxTracked == 2
MaxDrift == 1

Insts == DOMAIN inst

Active(i) == inst[i].state = "active"

\* The contents of the backend of instance c (nothing when it has none).
BackendOf(c, st) == IF STORAGE(c.storageType) THEN st[c.storageType] ELSE Empty

WithBackend(c, st, S) ==
  IF STORAGE(c.storageType) THEN [st EXCEPT ![c.storageType] = S] ELSE st

\* A handle no live interval has and no instance refers to.
FreshId(T, in) ==
  CHOOSE h \in 1..(Cardinality(T) + Cardinality(DOMAIN in) + 1) :
    /\ \A tm \in T : tm.id # h
    /\ \A j \in DOMAIN in : in[j].interval # h
    /\ \A g \in 1..(h - 1) :
         (\E tm \in T : tm.id = g) \/ (\E j \in DOMAIN in : in[j].interval = g)

NoWrites == [j \in {} |-> [k |-> <<>>, v |-> JSNull, t |-> 0, st |-> "written"]]

\* What is kept of a write once the caller has removed or cleared it.
Ended(w, how) == [k |-> w.k, v |-> JSNull, t |-> 0, st |-> how]

\* The instances of configuration cf (a sequence of constructor arguments),
\* constructed one after the other over the backends st.
RECURSIVE Construct(_, _, _, _)
Construct(cf, st, in, T) ==
  IF Len(in) = Len(cf) THEN {[inst |-> in, timers |-> T]}
  ELSE LET a == cf[Len(in) + 1]
           c0 == [namespace |-> a.namespace, storageType |-> a.storageType]
       IN UNION {Construct(cf, st,
                   Append(in, constructor(a.namespace, a.storageType, a.expire,
                                          keys, T, Len(in) + 1,
                                          FreshId(T, in)).c),
                   constructor(a.namespace, a.storageType, a.expire,
                               keys, T, Len(in) + 1, FreshId(T, in)).T)
                 : keys \in getStoredKeys(c0, BackendOf(c0, st))}

InitOf(configs, stores) ==
  /\ now = 0
  /\ storage \in stores
  /\ \E cf \in configs : \E b \in Construct(cf, storage, <<>>, {}) :
       inst = b.inst /\ timers = b.timers
  /\ wrote = [i \in DOMAIN inst |-> NoWrites]

(***************************************************************************)
(* The actions: one per handler.                                           *)
(***************************************************************************)
SetItem(i, k, v) ==
  /\ Active(i)
  /\ Len(inst[i].storedKeys) < MaxTracked
  /\ LET c == inst[i]
         r == setItem(c, BackendOf(c, storage), k, v, now)
         nk == getNamespaceKey(c, k)
     IN /\ inst' = [inst EXCEPT ![i] = r.c]
        /\ storage' = WithBackend(c, storage, r.S)
        /\ wrote' = IF r.threw THEN wrote
                    ELSE [wrote EXCEPT ![i] =
                            [j \in DOMAIN @ \cup {nk} |->
                               IF j = nk
                                 THEN [k |-> k, v |-> v, t |-> now,
                                       st |-> "written"]
                               ELSE @[j]]]
  /\ UNCHANGED <<now, timers>>

GetItem(i, k) ==
  /\ Active(i)
  /\ LET c == inst[i]
         r == getItem(c, BackendOf(c, storage), k, now)
     IN /\ inst' = [inst EXCEPT ![i] = r.c]
        /\ storage' = WithBackend(c, storage, r.S)
  /\ UNCHANGED <<now, timers, wrote>>

RemoveItem(i, k) ==
  /\ Active(i)
  /\ LET c == inst[i]
         r == removeItem(c, BackendOf(c, storage), k)
         nk == getNamespaceKey(c, k)
     IN /\ inst' = [inst EXCEPT ![i] = r.c]
        /\ storage' = WithBackend(c, storage, r.S)
        /\ wrote' = [wrote EXCEPT ![i] =
                       [j \in DOMAIN @ |->
                          IF j = nk THEN Ended(@[j], "removed")
                          ELSE @[j]]]
  /\ UNCHANGED <<now, timers>>

Clear(i) ==
  /\ Active(i)
  /\ LET c == inst[i]
         r == clear(c, BackendOf(c, storage))
     IN /\ inst' = [inst EXCEPT ![i] = r.c]
        /\ storage' = WithBackend(c, storage, r.S)
  /\ wrote' = [wrote EXCEPT ![i] =
                 [j \in DOMAIN @ |->
                    IF @[j].st = "written" THEN Ended(@[j], "cleared")
                    ELSE @[j]]]
  /\ UNCHANGED <<now, timers>>

\* The clocks one call of getCollection may see: the clock may move on
\* before any of its readings (it reads the clock at most twice per key).
ClocksFor(keys) ==
  Clocks(now, 2 * Len(keys), IF now + MaxDrift <= MaxTime THEN MaxDrift ELSE 0)

\* getCollection(), called by the user or by get size().
GetCollection(i) ==
  /\ Active(i)
  /\ \E keys \in getStoredKeys(inst[i], BackendOf(inst[i], storage)) :
       \E clk \in ClocksFor(keys) :
         LET c == inst[i]
             r == getCollection(c, BackendOf(c, storage), keys, clk)
         IN /\ inst' = [inst EXCEPT ![i] = r.c]
            /\ storage' = WithBackend(c, storage, r.S)
            /\ now' = clk.t + clk.d
  /\ UNCHANGED <<timers, wrote>>

SetExpire(i, value) ==
  /\ Active(i)
  /\ LET e == set_expire(inst[i], timers, value, i, FreshId(timers, inst))
     IN /\ inst' = [inst EXCEPT ![i] = e.c]
        /\ timers' = e.T
  /\ wrote' = [wrote EXCEPT ![i] = NoWrites]
  /\ UNCHANGED <<now, storage>>

Destruct(i) ==
  /\ Active(i)
  /\ LET e == destruct(inst[i], timers, i, FreshId(timers, inst))
     IN /\ inst' = [inst EXCEPT ![i] = e.c]
        /\ timers' = e.T
  /\ wrote' = [wrote EXCEPT ![i] = NoWrites]
  /\ UNCHANGED <<now, storage>>

\* A live interval fires: () => this.removeExpired().  On a disposed
\* instance storedKeys is null and the callback throws at once.
Sweep(tm) ==
  /\ tm \in timers
  /\ LET c == inst[tm.owner]
         r == IF c.state = "active"
                THEN removeExpired(c, BackendOf(c, storage), now)
              ELSE R(c, BackendOf(c, storage), JSUndefined, TRUE)
     IN /\ inst' = [inst EXCEPT ![tm.owner] = r.c]
        /\ storage' = WithBackend(c, storage, r.S)
  /\ UNCHANGED <<now, timers, wrote>>

\* A live interval fires while the backend's calls for the key `bad` fail.
SweepFailing(tm, bad) ==
  /\ tm \in timers
  /\ inst[tm.owner].state = "active"
  /\ bad \in Range(inst[tm.owner].storedKeys)
  /\ LET c == inst[tm.owner]
         r == removeExpiredFailing(c, BackendOf(c, storage), now, {bad})
     IN /\ inst' = [inst EXCEPT ![tm.owner] = r.c]
        /\ storage' = WithBackend(c, storage, r.S)
  /\ UNCHANGED <<now, timers, wrote>>

Tick ==
  /\ now < MaxTime
  /\ now' = now + 1
  /\ UNCHANGED <<storage, inst, timers, wrote>>

\* The steps of the program with the callers' inputs drawn from D.
NextOf(D) ==
  \/ \E i \in Insts : \E k \in D.keys : \E v \in D.vals : SetItem(i, k, v)
  \/ \E i \in Insts : \E k \in D.keys : GetItem(i, k)
  \/ \E i \in Insts : \E k \in D.keys : RemoveItem(i, k)
  \/ \E i \in Insts : Clear(i)
  \/ \E i \in Insts : GetCollection(i)
  \/ \E i \in Insts : \E value \in D.ttls : SetExpire(i, value)
  \/ \E i \in Insts : Destruct(i)
  \/ \E tm \in timers : Sweep(tm)
  \/ Tick

(***************************************************************************)
(* The specifications.  Each draws the constructor arguments and the       *)
(* callers' inputs from small sets.  Namespaces "a", "b" and "a_b"; the    *)
(* logical keys "x", "y" and the storage key that "x" derives under "a".   *)
(***************************************************************************)
NsA == Str(<<"a">>)
NsB == Str(<<"b">>)
NsAB == Str(<<"a", "_", "b">>)
KeyX == Str(<<"x">>)
KeyY == Str(<<"y">>)
KeyAX == NsA \o Str(<<"_">>) \o md5(KeyX)

EmptyStores == {[kind \in Supported |-> Empty]}

\* One instance per configuration.
Single(nss, kinds, ttls) ==
  {<<[namespace |-> ns, storageType |-> st, expire |-> e]>> :
     ns \in nss, st \in kinds, e \in ttls}

\* Spec: one instance over a text or an unsupported backend.
Inputs ==
  [keys |-> {KeyX, KeyAX},
   vals |-> {JSNumber(1)},
   ttls |-> {JSNumber(1), JSNumber(0)}]

Init == InitOf(Single({NsA}, {"local", "session", "bogus"}, Inputs.ttls),
               EmptyStores)

Next == NextOf(Inputs)

Spec == Init /\ [][Next]_vars

\* SpecRT: one instance over each supported backend, every kind of value.
InputsRT ==
  [keys |-> {KeyX, KeyAX},
   vals |-> {JSNumber(1), JSNull, JSUndefined, JSNaN, JSObject(2)},
   ttls |-> {JSNumber(1), JSNumber(0)}]

InitRT == InitOf(Single({NsA}, Supported, {JSNumber(1)}), EmptyStores)

NextRT == NextOf(InputsRT)

SpecRT == InitRT /\ [][NextRT]_vars

\* SpecKeys: one instance, two plain logical keys and a storage key.
InputsKeys ==
  [keys |-> {KeyX, KeyY, KeyAX},
   vals |-> {JSNumber(1), JSNumber(2)},
   ttls |-> {JSNumber(1), JSNumber(0)}]

InitKeys == InitOf(Single({NsA}, {"local"}, {JSNumber(1)}), EmptyStores)

NextKeys == NextOf(InputsKeys)

SpecKeys == InitKeys /\ [][NextKeys]_vars

\* SpecPair: two instances with different namespaces sharing one backend.
InputsPair ==
  [keys |-> {KeyX},
   vals |-> {JSNumber(1)},
   ttls |-> {JSNumber(1), JSNumber(0)}]

Pairs ==
  {<<[namespace |-> NsA, storageType |-> st, expire |-> e],
     [namespace |-> ns, storageType |-> st, expire |-> e]>> :
     ns \in {NsB, NsAB}, st \in {"local"}, e \in {JSNumber(1)}}

InitPair == InitOf(Pairs, EmptyStores)

NextPair == NextOf(InputsPair)

SpecPair == InitPair /\ [][NextPair]_vars

\* SpecExt: one instance over a text backend that already holds, at the
\* storage key of "x", text that is not JSON or JSON that is no envelope.
InputsExt ==
  [keys |-> {KeyX},
   vals |-> {JSNumber(1)},
   ttls |-> {JSNumber(1), JSNumber(0)}]

Leftovers == {<<"{", "\"t\"", ":">>, <<"1">>}

StoresExt ==
  {[kind \in Supported |->
      IF kind = on THEN (KeyAX :> JSString(text)) ELSE Empty] :
     on \in {"local", "session"}, text \in Leftovers}

InitExt == InitOf(Single({NsA}, {"local", "session"}, InputsExt.ttls), StoresExt)

NextExt == NextOf(InputsExt)

SpecExt == InitExt /\ [][NextExt]_vars

\* SpecTtl: one instance, every class of ttl value: a positive number, zero,
\* a negative number, a numeric string, a string that is no number, null and
\* the maximum delay.
InputsTtl ==
  [keys |-> {KeyX},
   vals |-> {JSNumber(1)},
   ttls |-> {JSNumber(1), JSNumber(0), JSNumber(0 - 1), JSString(<<"1">>),
             JSString(<<"never">>), JSNull, JSNumber(MAX_SIGNED_INT)}]

InitTtl == InitOf(Single({NsA}, {"local"}, InputsTtl.ttls), EmptyStores)

NextTtl == NextOf(InputsTtl)

SpecTtl == InitTtl /\ [][NextTtl]_vars

\* SpecFail: one instance over a text backend whose calls may fail during
\* a sweep.
InputsFail ==
  [keys |-> {KeyX, KeyAX},
   vals |-> {JSNumber(1)},
   ttls |-> {JSNumber(1), JSNumber(0)}]

InitFail == InitOf(Single({NsA}, {"local"}, {JSNumber(1)}), EmptyStores)

NextFail ==
  \/ NextOf(InputsFail)
  \/ \E tm \in timers : \E bad \in Range(inst[tm.owner].storedKeys) :
       SweepFailing(tm, bad)

SpecFail == InitFail /\ [][NextFail]_vars

\* SpecLive: one instance over localStorage constructed with ttl 1, the
\* operations of Spec, and its interval firing again and again: setInterval
\* calls removeExpired every ttl milliseconds until clearInterval.
SweepOf(i) ==
  /\ Active(i)
  /\ \E tm \in timers : tm.owner = i
  /\ UNCHANGED <<now, timers, wrote>>
  /\ \E r \in {removeExpired(inst[i], BackendOf(inst[i], storage), now)} :
       /\ inst' = [inst EXCEPT ![i] = r.c]
       /\ storage' = WithBackend(inst[i], storage, r.S)

InitLive == InitOf(Single({NsA}, {"local"}, {JSNumber(1)}), EmptyStores)

SpecLive == InitLive /\ [][Next]_vars /\ WF_vars(SweepOf(1))

(***************************************************************************)
(* Properties.  A handler's result in a state is what its operator yields  *)
(* there, so "getItem(k) returns v" is stated of every state in which the  *)
(* call could be made.                                                     *)
(***************************************************************************)
\* The backend of instance i.
B(i) == BackendOf(inst[i], storage)

\* The writes of instance i that still stand.
Standing(i) == {nk \in DOMAIN wrote[i] : wrote[i][nk].st = "written"}

\* Every result getCollection() and size can yield for instance c over the
\* backend contents S at the present time.
CollectionsOf(c, S) ==
  UNION {{getCollection(c, S, keys, clk) : clk \in ClocksFor(keys)} :
           keys \in getStoredKeys(c, S)}

SizesOf(c, S) ==
  UNION {{size(c, S, keys, clk) : clk \in ClocksFor(keys)} :
           keys \in getStoredKeys(c, S)}

Collections(i) == CollectionsOf(inst[i], B(i))

Sizes(i) == SizesOf(inst[i], B(i))

\* The write w at storage key nk of instance i obeys the ttl T of i.
TtlObeyed(i, nk) ==
  LET c == inst[i]
      w == wrote[i][nk]
      T == c.expire.n
      g == getItem(c, B(i), w.k, now)
  IN /\ now - w.t < T => ~g.threw /\ g.ret = w.v
     /\ now - w.t > T =>
          /\ ~g.threw /\ g.ret = JSNull
          /\ \A r \in Collections(i) : nk \notin DOMAIN r.ret
     /\ isExpired(c, B(i), w.k, now).val <=> w.t < now - T

\* C2: TTL correctness: with a numeric ttl T > 0, an entry written by
\* setItem(k, v) at t0 and not written, removed or cleared since is returned
\* by getItem(k) while t - t0 < T, is absent (getItem null, not in
\* getCollection()) when t - t0 > T, and counts as expired exactly when
\* t0 < t - T.
C2_TtlCorrect ==
  \A i \in Insts : Active(i) /\ ExpireEnabled(inst[i]) =>
    \A nk \in Standing(i) : TtlObeyed(i, nk)

\* C6: an unsupported backend selector fails at construction: no Active
\* instance has one, and setItem and getItem never raise for it later.
C6_FailsAtConstruction ==
  \A i \in Insts : Active(i) =>
    /\ STORAGE(inst[i].storageType)
    /\ \A k \in Inputs.keys :
         /\ ~getItem(inst[i], B(i), k, now).threw
         /\ \A v \in Inputs.vals : ~setItem(inst[i], B(i), k, v, now).threw

\* C7: clear idempotence: from any reachable Active state, after clear()
\* the tracked key set is empty and size is 0, and a second clear() directly
\* after the first leaves the backend and the tracked key set as the first
\* left them.
C7_ClearIdempotent ==
  \A i \in Insts : Active(i) =>
    LET once == clear(inst[i], B(i))
        twice == clear(once.c, once.S)
    IN /\ ~once.threw /\ ~twice.threw
       /\ once.c.storedKeys = <<>>
       /\ \A r \in SizesOf(once.c, once.S) : ~r.threw /\ r.ret = 0
       /\ twice.c = once.c /\ twice.S = once.S

\* The value setItem wrapped in the entry stored at nk.
Unwrapped(c, S, nk) ==
  IF IsText(c) THEN JSON_parse(S[nk]).val.v[1] ELSE S[nk].v[1]

\* C8: getCollection() returns exactly the namespace's backend keys whose
\* entries are not expired at the time of the call, each mapped to the value
\* last written there (never null for an entry, never an expired one), and
\* size is the number of those keys.
C8_CollectionExact ==
  \A i \in Insts : Active(i) /\ STORAGE(inst[i].storageType) =>
    LET c == inst[i]
        fresh == {nk \in OwnKeys(c, B(i)) : ~isExpired(c, B(i), nk, now).val}
    IN /\ \A r \in Collections(i) :
            /\ ~r.threw
            /\ DOMAIN r.ret = fresh
            /\ \A nk \in fresh : r.ret[nk] = Unwrapped(c, B(i), nk)
       /\ \A r \in Sizes(i) : r.ret = Cardinality(fresh)

\* C10 as stated: for every logical key k, written or not,
\* getNamespaceKey(getNamespaceKey(k)) = getNamespaceKey(k).
C10_AsStated ==
  \A i \in Insts : Active(i) =>
    \A k \in Inputs.keys :
      getNamespaceKey(inst[i], getNamespaceKey(inst[i], k))
        = getNamespaceKey(inst[i], k)

\* C10 amended: the same, for every logical key k whose derived storage key
\* is in the tracked key set.
C10_IdempotentWhenTracked ==
  \A i \in Insts : Active(i) =>
    \A k \in Inputs.keys :
      indexOf(inst[i].storedKeys, getNamespaceKey(inst[i], k)) > 0 =>
        getNamespaceKey(inst[i], getNamespaceKey(inst[i], k))
          = getNamespaceKey(inst[i], k)

\* The storage key of "x" is tracked and "x" is derived again.
C10_Witness ==
  \E i \in Insts :
    /\ Active(i)
    /\ indexOf(inst[i].storedKeys, getNamespaceKey(inst[i], KeyX)) > 0
    /\ getNamespaceKey(inst[i], KeyX) # KeyX

\* getItem(k) of instance i returns v.
ReadsBack(i, k, v) ==
  LET g == getItem(inst[i], B(i), k, now)
  IN ~g.threw /\ g.ret = v

\* setItem(k, v) and then getItem(k), on instance i in this state, returns v.
RoundTrip(i, k, v) ==
  LET w == setItem(inst[i], B(i), k, v, now)
      g == getItem(w.c, w.S, k, now)
  IN ~w.threw /\ ~g.threw /\ g.ret = v

\* C1 as stated: on an Active instance over a memory, local or session
\* backend, for every key k and every value v, getItem(k) directly after
\* setItem(k, v) returns exactly v.
C1_AsStated ==
  \A i \in Insts : Active(i) /\ STORAGE(inst[i].storageType) =>
    \A k \in InputsRT.keys : \A v \in InputsRT.vals : RoundTrip(i, k, v)

\* The values JSON text represents, and undefined (which JSON.stringify
\* leaves out of the envelope).
Serializable(v) == v.ty \in {"null", "number", "object", "undefined"}

\* C1 amended: the same for every value on the memory backend, and on local
\* and session for every serializable value and for undefined.
C1_RoundTrip ==
  \A i \in Insts : Active(i) /\ STORAGE(inst[i].storageType) =>
    \A k \in InputsRT.keys : \A v \in InputsRT.vals :
      (IsText(inst[i]) => Serializable(v)) => RoundTrip(i, k, v)

\* setItem has just stored undefined in a text backend and getItem reads it
\* back.
C1_Witness ==
  \E i \in Insts : \E nk \in Standing(i) :
    /\ inst[i].storageType = "session"
    /\ wrote[i][nk].t = now /\ now > 0
    /\ wrote[i][nk].v = JSUndefined
    /\ nk \in DOMAIN B(i)
    /\ ReadsBack(i, wrote[i][nk].k, JSUndefined)

\* C3: namespace isolation, read side: getCollection() of one instance never
\* contains a storage key written by another instance with a different
\* namespace on the same backend.
C3_NeverSeesOther ==
  \A i \in Insts : \A j \in Insts \ {i} :
    Active(i) /\ Active(j) =>
      \A r \in Collections(i) : DOMAIN r.ret \cap Standing(j) = {}

\* What setItem of instance c stored for the write w.
Stored(c, w) ==
  IF IsText(c) THEN JSString(JSON_stringify(Envelope(w.t, w.v)))
  ELSE Envelope(w.t, w.v)

\* C4: namespace isolation, write side: no operation of one instance deletes
\* or overwrites a backend entry written by another instance: an entry an
\* instance wrote, has not removed or cleared, and that has not expired, is
\* in the backend as written.
C4_NeverTouchesOther ==
  \A j \in Insts : Active(j) =>
    \A nk \in Standing(j) :
      (ExpireEnabled(inst[j]) => now - wrote[j][nk].t <= inst[j].expire.n)
        => /\ nk \in DOMAIN B(j)
           /\ B(j)[nk] = Stored(inst[j], wrote[j][nk])

\* C5: on a text backend, unparsable text at the storage key of k is a miss:
\* getItem(k), getCollection() and size raise nothing, getItem(k) is null and
\* the key is not in the collection.
C5_MalformedIsMiss ==
  \A i \in Insts : Active(i) /\ IsText(inst[i]) =>
    \A k \in InputsExt.keys :
      LET nk == getNamespaceKey(inst[i], k)
          g == getItem(inst[i], B(i), k, now)
      IN nk \in DOMAIN B(i) /\ JSON_parse(B(i)[nk]).threw
           => /\ ~g.threw /\ g.ret = JSNull
              /\ \A r \in Collections(i) : ~r.threw /\ nk \notin DOMAIN r.ret
              /\ \A r \in Sizes(i) : ~r.threw

\* The storage key logical key k derives by hashing.
Derived(c, k) == c.namespace \o Str(<<"_">>) \o md5(k)

\* Key derivation is a stable injection on the logical keys K of instance i:
\* distinct keys derive distinct storage keys, a key always derives the same
\* storage key, and getItem(k) returns the value of the latest setItem(k, .)
\* whatever was done with other keys (absent expiry, removeItem(k), clear()).
StableInjection(i, K) ==
  LET c == inst[i]
  IN /\ \A k1 \in K : \A k2 \in K \ {k1} :
          getNamespaceKey(c, k1) # getNamespaceKey(c, k2)
     /\ \A k \in K : getNamespaceKey(c, k) = Derived(c, k)
     /\ \A nk \in Standing(i) :
          /\ wrote[i][nk].k \in K
          /\ ExpireEnabled(c) => now - wrote[i][nk].t <= c.expire.n
          => ReadsBack(i, wrote[i][nk].k, wrote[i][nk].v)

\* C9: key derivation is a stable injection on all logical keys: distinct
\* keys never derive the same storage key, a key derives the same storage
\* key throughout, and getItem(k) returns the value of the latest
\* setItem(k, .) whatever was done with other keys.
C9_StableInjection ==
  \A i \in Insts : Active(i) => StableInjection(i, InputsKeys.keys)

\* A ttl value of one of the four disabling classes: zero, negative,
\* non-numeric, numeric at or above the maximum delay.
Disabling(value) ==
  \/ value.ty # "number"
  \/ value.n <= 0
  \/ value.n >= MAX_SIGNED_INT

\* The live intervals of instance i.
SweepsOf(i) == {tm \in timers : tm.owner = i}

\* C11: disabling ttl: with a ttl that is zero, negative, non-numeric or at
\* or above the maximum delay, isExpired returns false for every key and no
\* recurring sweep is scheduled.
C11_TtlDisabled ==
  \A i \in Insts : Active(i) /\ Disabling(inst[i].expire) =>
    /\ \A k \in InputsTtl.keys :
         LET e == isExpired(inst[i], B(i), k, now)
         IN ~e.threw /\ ~e.val
    /\ SweepsOf(i) = {}

Disposed(i) == inst[i].state = "disposed"

\* C12: disposal: destruct() removes no entry from the backend, a disposed
\* instance has no live sweep, and once every instance is disposed the
\* backend contents never change again.
C12_Disposal ==
  /\ [](\A i \in Insts : Disposed(i) => SweepsOf(i) = {})
  /\ [][/\ \A i \in Insts : Active(i) /\ Disposed(i)' => storage' = storage
        /\ (\A i \in Insts : Disposed(i)) => storage' = storage]_vars

\* An instance is disposed while the backend still holds an entry it wrote
\* and the clock has moved on.
C12_Witness ==
  \E i \in Insts :
    /\ Disposed(i)
    /\ storage["local"] # Empty
    /\ now = MaxTime

\* The tracked keys of instance c that count as expired at time t.
ExpiredTracked(c, S, t) ==
  {nk \in Range(c.storedKeys) : isExpired(c, S, nk, t).val}

\* C13: sweep postcondition: when one removeExpired() pass completes, every
\* key that was tracked and expired at its start is gone from the backend
\* and from the tracked key set.
C13_SweepRemovesExpired ==
  \A i \in Insts : Active(i) /\ ExpireEnabled(inst[i]) =>
    LET r == removeExpired(inst[i], B(i), now)
    IN /\ ~r.threw
       /\ \A nk \in ExpiredTracked(inst[i], B(i), now) :
            /\ nk \notin DOMAIN r.S
            /\ nk \notin Range(r.c.storedKeys)

\* C14: tracked-subset invariant: every key occurring in the tracked key set
\* is the key of an entry present in the backend.
C14_TrackedSubset ==
  \A i \in Insts : Active(i) => Range(inst[i].storedKeys) \subseteq DOMAIN B(i)

\* typeof value === 'number' and 0 < value < MAX_SIGNED_INT
PositiveNumber(value) ==
  value.ty = "number" /\ value.n > 0 /\ value.n < MAX_SIGNED_INT

\* C15: sweep scheduling: in every reachable state an instance has at most
\* one live recurring sweep; it has one only if its ttl is a positive number
\* strictly below 2147483647, and then the sweep's interval is the ttl.
C15_SweepScheduling ==
  \A i \in Insts : Active(i) =>
    /\ Cardinality(SweepsOf(i)) <= 1
    /\ SweepsOf(i) # {} => PositiveNumber(inst[i].expire)
    /\ \A tm \in SweepsOf(i) :
         tm.delay = inst[i].expire /\ tm.id = inst[i].interval

\* C16: getCollection() does not evict: a call of getCollection() or a read
\* of size leaves the backend contents as they were, also when the clock
\* advances between the two expiry checks.
C16_CollectionKeepsBackend ==
  \A i \in Insts : Active(i) =>
    /\ \A r \in Collections(i) : r.S = B(i)
    /\ \A r \in Sizes(i) : r.S = B(i)

\* The number of occurrences of key in the tracked key set.
Occ(keys, key) == Cardinality({j \in 1..Len(keys) : keys[j] = key})

\* The calls that can remove the entry of k from instance c over S:
\* removeItem(k), a read of k and a sweep.
RemovalCalls(c, S, k) ==
  {removeItem(c, S, k), getItem(c, S, k, now), removeExpired(c, S, now)}

\* The removals of the entry of k: removeItem(k) and, when the entry is
\* expired, the get-triggered and the sweep-triggered removal.
Removals(c, S, k) ==
  IF isExpired(c, S, k, now).val THEN RemovalCalls(c, S, k)
  ELSE {removeItem(c, S, k)}

\* C17: removal is idempotent: from any reachable Active state and for any
\* key, a removal of the key followed by another one, in any combination of
\* removeItem, get-triggered and sweep-triggered removal, raises no error
\* and the second leaves the key's entry and its tracking as the first did.
C17_RemovalIdempotent ==
  \A i \in Insts : Active(i) /\ STORAGE(inst[i].storageType) =>
    \A k \in Inputs.keys :
      LET nk == getNamespaceKey(inst[i], k)
      IN \A r1 \in Removals(inst[i], B(i), k) :
           \A r2 \in RemovalCalls(r1.c, r1.S, k) :
             /\ ~r1.threw /\ ~r2.threw
             /\ nk \in DOMAIN r2.S <=> nk \in DOMAIN r1.S
             /\ Occ(r2.c.storedKeys, nk) = Occ(r1.c.storedKeys, nk)

\* C18: sweep failure independence: when during one removeExpired() pass the
\* backend call for one tracked key fails, every other tracked key that was
\* expired at the start of the pass is still removed.
C18_SweepSurvivesFailure ==
  \A i \in Insts : Active(i) /\ ExpireEnabled(inst[i]) =>
    \A bad \in Range(inst[i].storedKeys) :
      LET r == removeExpiredFailing(inst[i], B(i), now, {bad})
      IN \A nk \in ExpiredTracked(inst[i], B(i), now) \ {bad} :
           nk \notin DOMAIN r.S

\* C19: no untracked entries: every backend key beginning with
\* namespace + "_" occurs in the tracked key set of the instance using the
\* namespace.
C19_NoUntracked ==
  \A i \in Insts : Active(i) =>
    OwnKeys(inst[i], B(i)) \subseteq Range(inst[i].storedKeys)

\* The storage keys the logical keys of Spec derive under namespace "a".
StorageKeysA == {NsA \o Str(<<"_">>) \o md5(k) : k \in Inputs.keys}

\* Instance i is not disposed, its ttl is a number in (0, 2147483647), and
\* the entry it last wrote at nk through setItem has expired.
ExpiredEntry(i, nk) ==
  /\ Active(i) /\ PositiveNumber(inst[i].expire)
  /\ nk \in Standing(i)
  /\ wrote[i][nk].t < now - inst[i].expire.n

\* C20: eventual eviction: under fair firing of the sweep timer, an expired
\* entry that setItem wrote is eventually gone from the backend and from the
\* tracked key set, unless the entry is written again, removed or cleared,
\* the ttl is assigned or the instance is disposed.
C20_EventuallyEvicted ==
  \A nk \in StorageKeysA :
    ExpiredEntry(1, nk) ~>
      \/ ~ExpiredEntry(1, nk)
      \/ nk \notin DOMAIN B(1) /\ nk \notin Range(inst[1].storedKeys)

\* Two expired entries stand in a row in the tracked key set: one pass
\* removes the first and leaves the second behind.
C20_Witness ==
  /\ \A nk \in StorageKeysA : ExpiredEntry(1, nk) /\ nk \in DOMAIN B(1)
  /\ Len(inst[1].storedKeys) = 2
  /\ inst[1].storedKeys[1] # inst[1].storedKeys[2]
  /\ removeExpired(inst[1], B(1), now).c.storedKeys # <<>>

====
